---- MODULE Spec2Model ----
(***************************************************************************)
(* Model of the code synthesis / execution / self-repair pipeline of       *)
(* agents/code_agent.py (CodeAgent.process_message and                     *)
(* CodeAgent.execute_and_fix_code), the in-process executor                *)
(* CodeAgent._execute_python and the environment probe                     *)
(* utils/environment_checker.py.                                           *)
(*                                                                         *)
(* Source texts are abstracted to small integers: EmptyCode is the empty   *)
(* string, NoneCode is Python's None, 1..MaxCode are distinct non-empty    *)
(* sources.  An execution result text is abstracted to the set of the      *)
(* marker substrings it contains.                                          *)
(*                                                                         *)
(* Spec is the pipeline of one agent.  SpecCancel adds the cancellation of *)
(* the task that runs a request, SpecSessions is _execute_python run by    *)
(* several sessions of one process, and SpecStudy applies the response     *)
(* parsers, the fence stripping and check_dependencies to every input of   *)
(* a bounded set of token texts.                                           *)
(***************************************************************************)
EXTENDS Integers, Sequences, FiniteSets, TLC

\* ---- bounds of the model ----
MaxN == 2          \* largest max_fix_attempts explored
MaxCode == 2       \* number of distinct non-empty source texts
MaxRequests == 2   \* number of process_message calls in one behaviour
MaxSessions == 2   \* sessions that execute code in the process at one time
MaxLen == 4        \* tokens of a response text given to a parser
MaxDeps == 2       \* entries of a dependency list given to check_dependencies

\* ---- values ----
EmptyCode == 0
NoneCode == -1
RaisedCode == -2
OrigStream == 0

Codes == EmptyCode..MaxCode
Markers == {"ExecErr", "Error"}
RawLanguages == {"Python", "python", "py", "JavaScript", "go", ""}
DepNames == {"numpy"}
InputCodes == {2}
AllowInstalls == TRUE
Sessions == 1..MaxSessions

VARIABLES
    pc,               \* position of the request inside process_message
    mode,             \* "none", "normal" or "filegen"
    requests,         \* process_message calls started so far
    max_fix_attempts, \* self.max_fix_attempts
    importable,       \* host: dependency names importlib can resolve
    sys_stdout,       \* sys.stdout: OrigStream or a capture buffer
    sys_stderr,       \* sys.stderr
    old_stdout,       \* _execute_python local
    old_stderr,       \* _execute_python local
    file_type,        \* process_message local (file-generation mode)
    language,         \* process_message local
    dependencies,     \* process_message local
    code,             \* process_message local
    env_ready,        \* process_message local
    env_message,      \* process_message local
    install_logs,     \* process_message local
    needs_input,      \* process_message local
    current_code,     \* execute_and_fix_code local
    attempt,          \* execute_and_fix_code loop variable
    fix_attempts,     \* execute_and_fix_code local
    is_successful,    \* execute_and_fix_code local
    execution_result, \* execute_and_fix_code local (marker set of the text)
    fix_history,      \* execute_and_fix_code local
    response,         \* what process_message returned
    executor_result,  \* what the last CodeExecutor.execute_code call did
    exec_calls,       \* observation: _execute_python calls of this request
    fix_calls,        \* observation: fix_code calls of this request
    install_calls,    \* observation: install_dependencies calls
    statuses,         \* observation: faulted flag of each finished execution
    fix_log,          \* observation: code asked / code returned of each fix
    last_executed,    \* observation: source passed to the last execution
    test_data_result, \* process_message local (analyze_input_requirements)
    generated_code,   \* observation: code field of the generation response
    cancel_requested, \* the caller asked for the request to be cancelled
    calls_at_cancel,  \* observation: exec / fix calls when that happened
    s_pc,             \* concurrent sessions: position in _execute_python
    s_old_stdout,     \* concurrent sessions: old_stdout of each session
    s_old_stderr,     \* concurrent sessions: old_stderr of each session
    captured,         \* concurrent sessions: whose output each buffer holds
    s_output,         \* concurrent sessions: the output each session read
    p_op,             \* function study: the function applied
    p_in,             \* function study: its argument
    p_out             \* function study: the results so far

vars == <<pc, mode, requests, max_fix_attempts, importable,
          sys_stdout, sys_stderr, old_stdout, old_stderr, file_type,
          language, dependencies, code, env_ready, env_message, install_logs,
          needs_input, current_code, attempt, fix_attempts, is_successful,
          execution_result, fix_history, response, executor_result,
          exec_calls, fix_calls, install_calls, statuses, fix_log,
          last_executed, test_data_result, generated_code, cancel_requested,
          calls_at_cancel, s_pc, s_old_stdout, s_old_stderr, captured,
          s_output, p_op, p_in, p_out>>

hostVars == <<max_fix_attempts, importable>>
streamVars == <<sys_stdout, sys_stderr, old_stdout, old_stderr>>
genVars == <<file_type, language, dependencies, code>>
envVars == <<env_ready, env_message>>
loopVars == <<current_code, attempt, fix_attempts, is_successful,
              execution_result, fix_history>>
obsVars == <<exec_calls, fix_calls, install_calls, statuses, fix_log,
             last_executed>>
inputVars == <<test_data_result, generated_code>>
cancelVars == <<cancel_requested, calls_at_cancel>>
sessionVars == <<s_pc, s_old_stdout, s_old_stderr, captured, s_output>>
studyVars == <<p_op, p_in, p_out>>

\* ---- pure helpers ----

\* str.lower() on the language names the generator can return
Lower(l) ==
    CASE l = "Python" -> "python"
      [] l = "JavaScript" -> "javascript"
      [] OTHER -> l

\* EnvironmentChecker._normalize_language
NormalizeLanguage(l) ==
    LET low == Lower(l) IN
    CASE low = "py" -> "python"
      [] low = "js" -> "javascript"
      [] low = "node" -> "javascript"
      [] low = "c#" -> "csharp"
      [] low = "cs" -> "csharp"
      [] low = "c++" -> "cpp"
      [] low = "c" -> "cpp"
      [] low = "rb" -> "ruby"
      [] OTHER -> low

LanguageEnvironments ==
    {"python", "javascript", "java", "csharp", "cpp", "php", "ruby", "r"}

\* languages whose executables shutil.which may or may not find on the host
ProbedTools == LanguageEnvironments \ {"python"}

\* EnvironmentChecker.check_environment: (ready, message); tools are the
\* languages whose executables are on the search path at the time of the call
CheckEnvironment(l, tools) ==
    LET n == NormalizeLanguage(l) IN
    IF n \in LanguageEnvironments
    THEN IF n = "python" \/ n \in tools
         THEN [ready |-> TRUE, message |-> "available"]
         ELSE [ready |-> FALSE, message |-> "guide"]
    ELSE [ready |-> FALSE, message |-> "unsupported"]

\* process_message: `if env_ready:`
ShouldExecuteAlways(ready) == TRUE

ShouldExecute(ready) == ready

\* CodeAgent.check_dependencies
CheckDependencies(deps, resolvable) == {d \in deps : d \notin resolvable}

\* Python truthiness of an optional string
Truthy(c) == c # NoneCode /\ c # EmptyCode

\* analyze_input_requirements: languages that have input patterns
InputPatternLanguages == {"python", "javascript", "java", "c++", "c#"}

NeedsInput(c, l) == Lower(l) \in InputPatternLanguages /\ c \in InputCodes

\* analyze_input_requirements: the second component of what it returns.
\* "generated" is a parsed synthesis response (its MODIFIED_CODE field may
\* be empty), "manual" the dictionary of the except branch, which has no
\* modified_code entry, so the caller's .get gives the empty string
TestDataResults(c, l) ==
    IF NeedsInput(c, l)
    THEN {[kind |-> "manual", modified_code |-> EmptyCode]}
         \cup {[kind |-> "generated", modified_code |-> m] : m \in Codes}
    ELSE {[kind |-> "none", modified_code |-> EmptyCode]}

\* process_message: `if needs_input: ... if modified_code: code = ...`
AdoptModifiedCodeNever(c, needs, result) == c

AdoptModifiedCode(c, needs, result) ==
    IF needs /\ Truthy(result.modified_code)
    THEN result.modified_code ELSE c

\* execute_and_fix_code: `if language != "python":`
NotExecutableNever(l) == FALSE

NotExecutable(l) == l # "python"

\* install_dependencies: what the call does when the installer could be
\* launched or not and exited with returncode.  Every exception of the
\* launch is caught and turned into a message
InstallDependenciesUncaught(launched, returncode) ==
    [raised |-> ~launched, log |-> "launch_error"]

InstallDependencies(launched, returncode) ==
    IF ~launched THEN [raised |-> FALSE, log |-> "launch_error"]
    ELSE IF returncode # 0 THEN [raised |-> FALSE, log |-> "failed"]
    ELSE [raised |-> FALSE, log |-> "installed"]

\* execute_and_fix_code: has_error of an execution record
HasError(text) == "ExecErr" \in text \/ "Error" \in text

\* execute_and_fix_code: `if fix_attempts >= self.max_fix_attempts`
AttemptsExhaustedOff(fa, n) == fa > n

AttemptsExhausted(fa, n) == fa >= n

\* execute_and_fix_code: `if new_code and new_code != current_code`
CodeChangedNoCompare(new, cur) == new # EmptyCode

CodeChanged(new, cur) == new # EmptyCode /\ new # cur

\* execute_and_fix_code: fix_record["fixed_code"]
FixedCodeField(new, cur) == IF new # EmptyCode THEN new ELSE cur

\* execute_and_fix_code: `current_code if fix_attempts > 0 else None`
ReturnedFixedCodeAlways(cur, fa) == cur

ReturnedFixedCode(cur, fa) == IF fa > 0 THEN cur ELSE NoneCode

\* process_message: `if fixed_code: code = fixed_code`
FinalCodeStale(c, fixed) == c

FinalCode(c, fixed) == IF Truthy(fixed) THEN fixed ELSE c

\* _execute_python: StringIO(), a capture buffer no earlier call created.
\* At most one buffer of a request is installed at a time (a call that
\* leaves its buffer installed ends the request), so the request number r
\* names the buffer apart from every other stream it is compared with
NewBuffer(r) == r

\* _execute_python: the finally block
RestoreStreamsSkipped(old, cur) == cur

RestoreStreams(old, cur) == old

\* the outcomes one evaluation of a source can have
ExecOutcomes(c) ==
    IF c = EmptyCode
    THEN {[faulted |-> FALSE, text |-> {}]}
    ELSE {[faulted |-> FALSE, text |-> {}],
          [faulted |-> FALSE, text |-> {"Error"}],
          [faulted |-> TRUE, text |-> {"ExecErr"}],
          [faulted |-> TRUE, text |-> {"ExecErr", "Error"}]}

\* execute_and_fix_code: execution_record, fix_record
ExecutionRecordNoCode(a, c, text) ==
    [kind |-> "exec", attempt |-> a, code |-> EmptyCode, result |-> text,
     has_error |-> HasError(text), fix_error |-> FALSE, status |-> "",
     original_code |-> EmptyCode, fixed_code |-> EmptyCode]

ExecutionRecord(a, c, text) ==
    [kind |-> "exec", attempt |-> a, code |-> c, result |-> text,
     has_error |-> HasError(text), fix_error |-> FALSE, status |-> "",
     original_code |-> EmptyCode, fixed_code |-> EmptyCode]

FixRecordNextAttempt(a, text, cur, new, st) ==
    [kind |-> "fix", attempt |-> a + 1, code |-> EmptyCode, result |-> text,
     has_error |-> FALSE, fix_error |-> FALSE, status |-> st,
     original_code |-> cur, fixed_code |-> FixedCodeField(new, cur)]

FixRecord(a, text, cur, new, st) ==
    [kind |-> "fix", attempt |-> a, code |-> EmptyCode, result |-> text,
     has_error |-> FALSE, fix_error |-> FALSE, status |-> st,
     original_code |-> cur, fixed_code |-> FixedCodeField(new, cur)]

NoResponse ==
    [kind |-> "none", code |-> EmptyCode, message |-> "",
     repair_section |-> FALSE, success_shown |-> FALSE, result |-> {}]

NoTestData == [kind |-> "none", modified_code |-> EmptyCode]

NoCalls == [exec |-> 0, fix |-> 0]

\* no other session is executing code
SessionsIdle ==
    /\ s_pc = [s \in Sessions |-> "idle"]
    /\ s_old_stdout = [s \in Sessions |-> OrigStream]
    /\ s_old_stderr = [s \in Sessions |-> OrigStream]
    /\ captured = [s \in Sessions |-> {}]
    /\ s_output = [s \in Sessions |-> {}]

\* no function is under study
StudyIdle ==
    /\ p_op = "none"
    /\ p_in = <<>>
    /\ p_out = <<>>

\* ---- initial state: a constructed CodeAgent on some host ----
AgentConstructed(n, resolvable) ==
    /\ pc = "idle"
    /\ mode = "none"
    /\ requests = 0
    /\ max_fix_attempts = n
    /\ importable = resolvable
    /\ sys_stdout = OrigStream
    /\ sys_stderr = OrigStream
    /\ old_stdout = OrigStream
    /\ old_stderr = OrigStream
    /\ file_type = ""
    /\ language = ""
    /\ dependencies = {}
    /\ code = EmptyCode
    /\ env_ready = FALSE
    /\ env_message = ""
    /\ install_logs = ""
    /\ needs_input = FALSE
    /\ current_code = EmptyCode
    /\ attempt = 0
    /\ fix_attempts = 0
    /\ is_successful = FALSE
    /\ execution_result = {}
    /\ fix_history = <<>>
    /\ response = NoResponse
    /\ executor_result = "none"
    /\ exec_calls = 0
    /\ fix_calls = 0
    /\ install_calls = 0
    /\ statuses = <<>>
    /\ fix_log = <<>>
    /\ last_executed = EmptyCode
    /\ test_data_result = NoTestData
    /\ generated_code = EmptyCode
    /\ cancel_requested = FALSE
    /\ calls_at_cancel = NoCalls

Init ==
    /\ \E n \in 0..MaxN, resolvable \in SUBSET DepNames :
          AgentConstructed(n, resolvable)
    /\ SessionsIdle
    /\ StudyIdle

\* ---- process_message ----

\* entry: the message carries the file-generation marker or not
StartRequest ==
    /\ pc = "idle"
    /\ requests < MaxRequests
    /\ \E m \in {"normal", "filegen"} :
          /\ mode' = m
          /\ pc' = IF m = "filegen" THEN "detect" ELSE "generate"
    /\ requests' = requests + 1
    /\ executor_result' = "none"
    /\ UNCHANGED <<inputVars, cancelVars, sessionVars, studyVars>>
    /\ UNCHANGED <<hostVars, streamVars, genVars, envVars, install_logs,
                   needs_input, loopVars, response, obsVars>>

\* _detect_file_type_with_ai: a failure of the call is caught, giving "pdf"
DetectFileType ==
    /\ executor_result' = executor_result
    /\ UNCHANGED <<inputVars, cancelVars, sessionVars, studyVars>>
    /\ pc = "detect"
    /\ ~cancel_requested
    /\ \E failed \in BOOLEAN :
          file_type' = IF failed THEN "pdf" ELSE "csv"
    /\ pc' = "generate"
    /\ UNCHANGED <<mode, requests, hostVars, streamVars, language,
                   dependencies, code, envVars, install_logs, needs_input,
                   loopVars, response, obsVars>>

\* generate_smart_code returns a parsed response (normal mode)
GenerateSmartCode ==
    /\ executor_result' = executor_result
    /\ UNCHANGED <<test_data_result, cancelVars, sessionVars, studyVars>>
    /\ pc = "generate"
    /\ mode = "normal"
    /\ ~cancel_requested
    /\ \E l \in RawLanguages, deps \in SUBSET DepNames, c \in Codes :
          /\ language' = Lower(l)
          /\ dependencies' = deps
          /\ code' = c
          /\ generated_code' = c
    /\ pc' = "probe"
    /\ UNCHANGED <<mode, requests, hostVars, streamVars, file_type, envVars,
                   install_logs, needs_input, loopVars, response, obsVars>>

\* generate_file_creation_code returns; the caller runs it as "python"
GenerateFileCreationCode ==
    /\ executor_result' = executor_result
    /\ UNCHANGED <<test_data_result, cancelVars, sessionVars, studyVars>>
    /\ pc = "generate"
    /\ mode = "filegen"
    /\ ~cancel_requested
    /\ \E c \in Codes : code' = c /\ generated_code' = c
    /\ language' = "python"
    /\ pc' = "loop_entry"
    /\ UNCHANGED <<mode, requests, hostVars, streamVars, file_type,
                   dependencies, envVars, install_logs, needs_input, loopVars,
                   response, obsVars>>

\* generate_smart_code re-raises a failure of the generation call: inside
\* the try block (normal mode) it becomes an error message, in
\* file-generation mode nothing catches it
GenerateRaises ==
    /\ executor_result' = executor_result
    /\ UNCHANGED <<inputVars, cancelVars, sessionVars, studyVars>>
    /\ pc = "generate"
    /\ ~cancel_requested
    /\ IF mode = "normal"
       THEN /\ response' = [NoResponse EXCEPT !.kind = "error"]
            /\ pc' = "returned"
       ELSE /\ response' = response
            /\ pc' = "raised"
    /\ UNCHANGED <<mode, requests, hostVars, streamVars, genVars, envVars,
                   install_logs, needs_input, loopVars, obsVars>>

\* check_environment and the branch on env_ready
ProbeEnvironment ==
    /\ executor_result' = executor_result
    /\ UNCHANGED <<inputVars, cancelVars, sessionVars, studyVars>>
    /\ pc = "probe"
    /\ \E tools \in SUBSET ProbedTools :
       LET probe == CheckEnvironment(language, tools) IN
          /\ cancel_requested => NormalizeLanguage(language) \notin tools
          /\ env_ready' = probe.ready
          /\ env_message' = probe.message
          /\ IF ShouldExecute(probe.ready)
             THEN /\ pc' = "deps"
                  /\ response' = response
             ELSE /\ pc' = "returned"
                  /\ response' = [NoResponse EXCEPT !.kind = "env",
                                     !.code = code,
                                     !.message = probe.message]
    /\ UNCHANGED <<mode, requests, hostVars, streamVars, genVars,
                   install_logs, needs_input, loopVars, obsVars>>

\* check_dependencies, then install_dependencies up to the launch of the
\* installer (Python only).  A launch that fails is over at once; a launched
\* installer is waited for with a blocking communicate()
ResolveDependencies ==
    /\ executor_result' = executor_result
    /\ UNCHANGED <<inputVars, cancelVars, sessionVars, studyVars>>
    /\ pc = "deps"
    /\ LET missing == CheckDependencies(dependencies, importable) IN
       IF language = "python" /\ dependencies # {} /\ missing # {}
          /\ AllowInstalls
       THEN /\ install_calls' = install_calls + 1
            /\ \E launched \in BOOLEAN :
                  IF launched
                  THEN /\ install_logs' = install_logs
                       /\ response' = response
                       /\ pc' = "installing"
                  ELSE LET r == InstallDependencies(FALSE, 0) IN
                       IF r.raised
                       THEN /\ install_logs' = install_logs
                            /\ response' =
                                  [NoResponse EXCEPT !.kind = "error"]
                            /\ pc' = "returned"
                       ELSE /\ install_logs' = r.log
                            /\ response' = response
                            /\ pc' = "analyze"
       ELSE /\ install_calls' = install_calls
            /\ install_logs' = ""
            /\ response' = response
            /\ pc' = "analyze"
    /\ UNCHANGED <<mode, requests, hostVars, streamVars, genVars, envVars,
                   needs_input, loopVars, exec_calls, fix_calls, statuses,
                   fix_log, last_executed>>

\* install_dependencies: the installer exits; whatever its exit code, some
\* of the requested modules may have become importable
InstallFinishes ==
    /\ executor_result' = executor_result
    /\ UNCHANGED <<inputVars, cancelVars, sessionVars, studyVars>>
    /\ pc = "installing"
    /\ \E returncode \in {0, 1},
          got \in SUBSET CheckDependencies(dependencies, importable) :
          /\ install_logs' = InstallDependencies(TRUE, returncode).log
          /\ importable' = importable \cup got
    /\ pc' = "analyze"
    /\ UNCHANGED <<mode, requests, max_fix_attempts, streamVars, genVars,
                   envVars, needs_input, loopVars, response, obsVars>>

\* analyze_input_requirements and the adoption of modified_code
AnalyzeInput ==
    /\ executor_result' = executor_result
    /\ UNCHANGED <<generated_code, cancelVars, sessionVars, studyVars>>
    /\ pc = "analyze"
    /\ cancel_requested => ~NeedsInput(code, language)
    /\ needs_input' = NeedsInput(code, language)
    /\ \E r \in TestDataResults(code, language) :
          /\ test_data_result' = r
          /\ code' = AdoptModifiedCode(code, NeedsInput(code, language), r)
    /\ pc' = "loop_entry"
    /\ UNCHANGED <<mode, requests, hostVars, streamVars, file_type, language,
                   dependencies, envVars, install_logs, loopVars, response,
                   obsVars>>

\* ---- execute_and_fix_code ----

\* entry: non-Python code is not executed; otherwise the loop is set up
EnterRepairLoop ==
    /\ executor_result' = executor_result
    /\ UNCHANGED <<inputVars, cancelVars, sessionVars, studyVars>>
    /\ pc = "loop_entry"
    /\ fix_history' = <<>>
    /\ IF NotExecutable(language)
       THEN /\ execution_result' = {"NotExecuted"}
            /\ is_successful' = TRUE
            /\ current_code' = current_code
            /\ pc' = "respond"
       ELSE /\ execution_result' = execution_result
            /\ is_successful' = FALSE
            /\ current_code' = code
            /\ pc' = "exec_redirect"
    /\ fix_attempts' = 0
    /\ attempt' = 0
    /\ UNCHANGED <<mode, requests, hostVars, streamVars, genVars, envVars,
                   install_logs, needs_input, response, obsVars>>

\* _execute_python: save the streams and redirect them to fresh buffers
RedirectStreams ==
    /\ executor_result' = executor_result
    /\ UNCHANGED <<inputVars, cancelVars, sessionVars, studyVars>>
    /\ pc = "exec_redirect"
    /\ old_stdout' = sys_stdout
    /\ old_stderr' = sys_stderr
    /\ sys_stdout' = NewBuffer(requests)
    /\ sys_stderr' = NewBuffer(requests)
    /\ exec_calls' = exec_calls + 1
    /\ last_executed' = current_code
    /\ pc' = "exec_prepare"
    /\ UNCHANGED <<mode, requests, hostVars, genVars, envVars, install_logs,
                   needs_input, loopVars, response, fix_calls, install_calls,
                   statuses, fix_log>>

\* execute_and_fix_code: `await self._execute_python(current_code)`; without
\* the await the loop would go on to the fix request while the execution is
\* still in flight
PrepareNamespaceNotAwaited ==
    /\ executor_result' = executor_result
    /\ UNCHANGED <<inputVars, cancelVars, sessionVars, studyVars>>
    /\ pc = "exec_prepare"
    /\ pc' = "fixing"
    /\ fix_calls' = fix_calls + 1
    /\ UNCHANGED <<mode, requests, hostVars, streamVars, genVars, envVars,
                   install_logs, needs_input, loopVars, response, exec_calls,
                   install_calls, statuses, fix_log, last_executed>>

\* _execute_python: _clean_code, _extract_imports and the pre-import loop
\* complete (an ImportError of a module is swallowed)
PrepareNamespace ==
    /\ executor_result' = executor_result
    /\ UNCHANGED <<inputVars, cancelVars, sessionVars, studyVars>>
    /\ pc = "exec_prepare"
    /\ pc' = "exec_eval"
    /\ UNCHANGED <<mode, requests, hostVars, streamVars, genVars, envVars,
                   install_logs, needs_input, loopVars, response, obsVars>>

\* _execute_python: importing a module the source names raises something
\* other than ImportError.  This is before the try block, so the exception
\* leaves _execute_python and execute_and_fix_code; process_message catches
\* it in normal mode only
PrepareRaises ==
    /\ executor_result' = executor_result
    /\ UNCHANGED <<inputVars, cancelVars, sessionVars, studyVars>>
    /\ pc = "exec_prepare"
    /\ current_code # EmptyCode
    /\ IF mode = "normal"
       THEN /\ response' = [NoResponse EXCEPT !.kind = "error"]
            /\ pc' = "returned"
       ELSE /\ response' = response
            /\ pc' = "raised"
    /\ UNCHANGED <<mode, requests, hostVars, streamVars, genVars, envVars,
                   install_logs, needs_input, loopVars, obsVars>>

\* _execute_python: exec under try/except/finally, then the classification
\* of the result by execute_and_fix_code up to the next suspension point
EvaluateAndClassify ==
    /\ executor_result' = executor_result
    /\ UNCHANGED <<inputVars, cancelVars, sessionVars, studyVars>>
    /\ pc = "exec_eval"
    /\ sys_stdout' = RestoreStreams(old_stdout, sys_stdout)
    /\ sys_stderr' = RestoreStreams(old_stderr, sys_stderr)
    /\ \E o \in ExecOutcomes(current_code) :
          /\ statuses' = Append(statuses, o.faulted)
          /\ execution_result' = o.text
          /\ IF ~HasError(o.text)
             THEN /\ is_successful' = TRUE
                  /\ fix_history' = Append(fix_history,
                        ExecutionRecord(attempt, current_code, o.text))
                  /\ fix_calls' = fix_calls
                  /\ pc' = "respond"
             ELSE IF AttemptsExhausted(fix_attempts, max_fix_attempts)
             THEN /\ is_successful' = is_successful
                  /\ fix_history' = Append(fix_history,
                        ExecutionRecord(attempt, current_code, o.text))
                  /\ fix_calls' = fix_calls
                  /\ pc' = "respond"
             ELSE /\ is_successful' = is_successful
                  /\ fix_history' = fix_history
                  /\ fix_calls' = fix_calls + 1
                  /\ pc' = "fixing"
    /\ UNCHANGED <<mode, requests, hostVars, old_stdout, old_stderr,
                   genVars, envVars, install_logs, needs_input, current_code,
                   attempt, fix_attempts, response, exec_calls, install_calls,
                   fix_log, last_executed>>

\* fix_code returns a parsed fix: adopt it, or stop when nothing changed
FixReturns ==
    /\ executor_result' = executor_result
    /\ UNCHANGED <<inputVars, cancelVars, sessionVars, studyVars>>
    /\ pc = "fixing"
    /\ ~cancel_requested
    /\ \E new \in Codes :
          /\ fix_log' = Append(fix_log,
                               [asked |-> current_code, returned |-> new])
          /\ IF CodeChanged(new, current_code)
             THEN /\ current_code' = new
                  /\ fix_attempts' = fix_attempts + 1
                  /\ fix_history' = fix_history \o
                        <<ExecutionRecord(attempt, current_code,
                                          execution_result),
                          FixRecord(attempt, execution_result, current_code,
                                    new, "Modified")>>
                  /\ attempt' = attempt + 1
                  /\ pc' = IF attempt + 1 <= max_fix_attempts
                           THEN "exec_redirect" ELSE "respond"
             ELSE /\ current_code' = current_code
                  /\ fix_attempts' = fix_attempts
                  /\ fix_history' = fix_history \o
                        <<ExecutionRecord(attempt, current_code,
                                          execution_result),
                          FixRecord(attempt, execution_result, current_code,
                                    new, "Unchanged")>>
                  /\ attempt' = attempt
                  /\ pc' = "respond"
    /\ UNCHANGED <<mode, requests, hostVars, streamVars, genVars, envVars,
                   install_logs, needs_input, is_successful, execution_result,
                   response, exec_calls, fix_calls, install_calls, statuses,
                   last_executed>>

\* fix_code raises: the except branch notes the error on the execution
\* record and in the result text, and leaves the loop
FixRaises ==
    /\ executor_result' = executor_result
    /\ UNCHANGED <<inputVars, cancelVars, sessionVars, studyVars>>
    /\ pc = "fixing"
    /\ ~cancel_requested
    /\ fix_log' = Append(fix_log,
                         [asked |-> current_code, returned |-> RaisedCode])
    /\ fix_history' = Append(fix_history,
          [ExecutionRecord(attempt, current_code, execution_result)
             EXCEPT !.fix_error = TRUE])
    /\ execution_result' = execution_result \cup {"FixFailed"}
    /\ pc' = "respond"
    /\ UNCHANGED <<mode, requests, hostVars, streamVars, genVars, envVars,
                   install_logs, needs_input, current_code, attempt,
                   fix_attempts, is_successful, response, exec_calls,
                   fix_calls, install_calls, statuses, last_executed>>

\* ---- process_message, after execute_and_fix_code returned ----

\* normal mode: adopt the fixed code and build the response;
\* file-generation mode: extract the file path and answer without the code
BuildResponse ==
    /\ executor_result' = executor_result
    /\ UNCHANGED <<inputVars, cancelVars, sessionVars, studyVars>>
    /\ pc = "respond"
    /\ cancel_requested => mode = "normal"
    /\ LET fixed == ReturnedFixedCode(current_code, fix_attempts)
           final == FinalCode(code, fixed) IN
          /\ code' = final
          /\ IF mode = "normal"
             THEN response' = [kind |-> "result", code |-> final,
                               message |-> "",
                               repair_section |-> fix_attempts > 0,
                               success_shown |-> is_successful,
                               result |-> execution_result]
             ELSE \E found \in BOOLEAN :
                     response' = [NoResponse EXCEPT
                                    !.kind = IF found THEN "file"
                                             ELSE "exec_text",
                                    !.result = execution_result]
    /\ pc' = "returned"
    /\ UNCHANGED <<mode, requests, hostVars, streamVars, file_type, language,
                   dependencies, envVars, install_logs, needs_input, loopVars,
                   obsVars>>

\* the call is over; the agent waits for the next message.  The locals of
\* the finished call are gone, the process state (streams, host) stays
FinishRequest ==
    /\ executor_result' = executor_result
    /\ UNCHANGED <<sessionVars, studyVars>>
    /\ pc \in {"returned", "raised", "cancelled"}
    /\ test_data_result' = NoTestData
    /\ generated_code' = EmptyCode
    /\ cancel_requested' = FALSE
    /\ calls_at_cancel' = NoCalls
    /\ pc' = "idle"
    /\ mode' = "none"
    /\ old_stdout' = OrigStream
    /\ old_stderr' = OrigStream
    /\ file_type' = ""
    /\ language' = ""
    /\ dependencies' = {}
    /\ code' = EmptyCode
    /\ env_ready' = FALSE
    /\ env_message' = ""
    /\ install_logs' = ""
    /\ needs_input' = FALSE
    /\ current_code' = EmptyCode
    /\ attempt' = 0
    /\ fix_attempts' = 0
    /\ is_successful' = FALSE
    /\ execution_result' = {}
    /\ fix_history' = <<>>
    /\ response' = NoResponse
    /\ exec_calls' = 0
    /\ fix_calls' = 0
    /\ install_calls' = 0
    /\ statuses' = <<>>
    /\ fix_log' = <<>>
    /\ last_executed' = EmptyCode
    /\ UNCHANGED <<requests, hostVars, sys_stdout, sys_stderr>>

\* ---- utils/code_executor.py ----

\* CodeExecutor.execute_code, one whole call: redirect, exec under
\* try/except/finally, restore.  The call returns the output, returns an
\* error message, or raises (the except branch reads e.args[0], which an
\* exception without arguments does not have)
ExecuteCode ==
    /\ pc = "idle"
    /\ requests < MaxRequests
    /\ requests' = requests + 1
    /\ sys_stdout' = RestoreStreams(sys_stdout, NewBuffer(requests + 1))
    /\ sys_stderr' = RestoreStreams(sys_stderr, NewBuffer(requests + 1))
    /\ \E r \in {"output", "error_message", "raised"} : executor_result' = r
    /\ UNCHANGED <<inputVars, cancelVars, sessionVars, studyVars>>
    /\ UNCHANGED <<pc, mode, hostVars, old_stdout, old_stderr, genVars,
                   envVars, install_logs, needs_input, loopVars, response,
                   obsVars>>

Next ==
    \/ StartRequest
    \/ DetectFileType
    \/ GenerateSmartCode
    \/ GenerateFileCreationCode
    \/ GenerateRaises
    \/ ProbeEnvironment
    \/ ResolveDependencies
    \/ InstallFinishes
    \/ AnalyzeInput
    \/ EnterRepairLoop
    \/ RedirectStreams
    \/ PrepareNamespace
    \/ PrepareRaises
    \/ EvaluateAndClassify
    \/ FixReturns
    \/ FixRaises
    \/ BuildResponse
    \/ FinishRequest
    \/ ExecuteCode

Spec == Init /\ [][Next]_vars

\* ---- cancellation of a pending request ----

\* the positions at which the coroutine is suspended in an await that
\* gives control back to the event loop: the model calls (kernel.invoke)
\* and the version subprocess of the probe.  check_dependencies,
\* install_dependencies and _execute_python contain no such await
Suspended ==
    \/ pc \in {"detect", "generate", "fixing"}
    \/ pc = "probe" /\ NormalizeLanguage(language) \in ProbedTools
    \/ pc = "analyze" /\ NeedsInput(code, language)
    \/ pc = "respond" /\ mode = "filegen"

\* the caller cancels the task that runs process_message, while the
\* request waits in an await, for the installer or for an execution
RequestCancel ==
    /\ Suspended \/ pc \in {"installing", "exec_prepare", "exec_eval"}
    /\ ~cancel_requested
    /\ cancel_requested' = TRUE
    /\ calls_at_cancel' = [exec |-> exec_calls, fix |-> fix_calls]
    /\ UNCHANGED <<pc, mode, requests, hostVars, streamVars, genVars,
                   envVars, install_logs, needs_input, loopVars, response,
                   executor_result, obsVars, inputVars, sessionVars,
                   studyVars>>

\* the cancellation reaches the coroutine at the await it is suspended in;
\* no handler of the pipeline catches it
DeliverCancel ==
    /\ cancel_requested
    /\ Suspended
    /\ pc' = "cancelled"
    /\ UNCHANGED <<mode, requests, hostVars, streamVars, genVars, envVars,
                   install_logs, needs_input, loopVars, response,
                   executor_result, obsVars, inputVars, cancelVars,
                   sessionVars, studyVars>>

NextCancel ==
    \/ Next
    \/ RequestCancel
    \/ DeliverCancel

SpecCancel == Init /\ [][NextCancel]_vars

\* ---- sessions that run _execute_python in one process ----

pipelineVars == <<pc, mode, requests, hostVars, old_stdout, old_stderr,
                  genVars, envVars, install_logs, needs_input, loopVars,
                  response, executor_result, obsVars, inputVars, cancelVars>>

\* old_stdout = sys.stdout; old_stderr = sys.stderr
SessionSave(s) ==
    /\ s_pc[s] = "idle"
    /\ s_old_stdout' = [s_old_stdout EXCEPT ![s] = sys_stdout]
    /\ s_old_stderr' = [s_old_stderr EXCEPT ![s] = sys_stderr]
    /\ s_pc' = [s_pc EXCEPT ![s] = "saved"]
    /\ UNCHANGED <<pipelineVars, sys_stdout, sys_stderr, captured, s_output,
                   studyVars>>

\* sys.stdout = redirected_output; sys.stderr = redirected_error
SessionRedirect(s) ==
    /\ s_pc[s] = "saved"
    /\ sys_stdout' = NewBuffer(s)
    /\ sys_stderr' = NewBuffer(s)
    /\ s_pc' = [s_pc EXCEPT ![s] = "redirected"]
    /\ UNCHANGED <<pipelineVars, s_old_stdout, s_old_stderr, captured,
                   s_output, studyVars>>

\* exec(code, exec_globals): what the code prints goes to the stream that
\* sys.stdout names at that moment
SessionEvaluate(s) ==
    /\ s_pc[s] = "redirected"
    /\ captured' = IF sys_stdout \in Sessions
                   THEN [captured EXCEPT ![sys_stdout] = @ \cup {s}]
                   ELSE captured
    /\ s_pc' = [s_pc EXCEPT ![s] = "evaluated"]
    /\ UNCHANGED <<pipelineVars, sys_stdout, sys_stderr, s_old_stdout,
                   s_old_stderr, s_output, studyVars>>

\* stdout_output = redirected_output.getvalue()
SessionCollect(s) ==
    /\ s_pc[s] = "evaluated"
    /\ s_output' = [s_output EXCEPT ![s] = captured[NewBuffer(s)]]
    /\ s_pc' = [s_pc EXCEPT ![s] = "collected"]
    /\ UNCHANGED <<pipelineVars, sys_stdout, sys_stderr, s_old_stdout,
                   s_old_stderr, captured, studyVars>>

\* finally: sys.stdout = old_stdout; sys.stderr = old_stderr
SessionRestore(s) ==
    /\ s_pc[s] = "collected"
    /\ sys_stdout' = RestoreStreams(s_old_stdout[s], sys_stdout)
    /\ sys_stderr' = RestoreStreams(s_old_stderr[s], sys_stderr)
    /\ s_pc' = [s_pc EXCEPT ![s] = "done"]
    /\ UNCHANGED <<pipelineVars, s_old_stdout, s_old_stderr, captured,
                   s_output, studyVars>>

InitSessions ==
    /\ AgentConstructed(MaxN, {})
    /\ SessionsIdle
    /\ StudyIdle

NextSessions ==
    \E s \in Sessions :
       \/ SessionSave(s)
       \/ SessionRedirect(s)
       \/ SessionEvaluate(s)
       \/ SessionCollect(s)
       \/ SessionRestore(s)

SpecSessions == InitSessions /\ [][NextSessions]_vars

\* ---- properties ----

ExecRecordCount ==
    Cardinality({i \in 1..Len(fix_history) : fix_history[i].kind = "exec"})

FixRecordCount ==
    Cardinality({i \in 1..Len(fix_history) : fix_history[i].kind = "fix"})

SessionOver == pc \in {"respond", "returned"}

\* the execution of attempt k finished without a fault and every earlier
\* one ended in a fault
FirstSuccessAt(k) ==
    /\ k + 1 <= Len(statuses)
    /\ ~statuses[k + 1]
    /\ \A j \in 1..k : statuses[j]

\* the j-th fix request returned empty code or the code it was asked to fix
UnchangedReturn(j) ==
    fix_log[j].returned \in {EmptyCode, fix_log[j].asked}

\* the last _execute_python call went through its evaluation and ended in
\* a fault
LastExecutionFaulted ==
    /\ Len(statuses) >= 1
    /\ exec_calls = Len(statuses)
    /\ statuses[Len(statuses)]

\* C1: one call of execute_and_fix_code performs at most N+1 executions and
\* at most N fix requests, and its history holds at most N fix records,
\* whatever the executor and the fix collaborator do.
C1_BoundedAttempts ==
    /\ exec_calls <= max_fix_attempts + 1
    /\ fix_calls <= max_fix_attempts
    /\ FixRecordCount <= max_fix_attempts

C1_Witness ==
    /\ pc = "returned"
    /\ max_fix_attempts >= 1
    /\ exec_calls = max_fix_attempts + 1
    /\ fix_calls = max_fix_attempts
    /\ FixRecordCount = max_fix_attempts

\* C2: if the execution at attempt k is the first one that succeeds, the
\* session stops there as Succeeded with exactly k+1 execution outcomes,
\* k fix attempts and fix count k; no fix request follows the success.
C2_FirstSuccessStops ==
    \A k \in 0..max_fix_attempts :
        FirstSuccessAt(k) =>
            /\ SessionOver
            /\ is_successful
            /\ Len(statuses) = k + 1
            /\ ExecRecordCount = k + 1
            /\ FixRecordCount = k
            /\ fix_attempts = k
            /\ fix_calls = k

\* C3: a fix request that returns empty code, or the code it was asked to
\* fix, is recorded as Unchanged and ends the session at once as not
\* successful: it is the last fix request, and no execution follows it.
C3_UnchangedFixStalls ==
    \A j \in 1..Len(fix_log) :
        UnchangedReturn(j) =>
            /\ j = Len(fix_log)
            /\ SessionOver
            /\ ~is_successful
            /\ exec_calls = j
            /\ fix_calls = j
            /\ Len(fix_history) >= 2
            /\ fix_history[Len(fix_history)].kind = "fix"
            /\ fix_history[Len(fix_history)].status = "Unchanged"
            /\ fix_history[Len(fix_history) - 1].kind = "exec"
            /\ (pc = "returned" /\ mode = "normal" =>
                    /\ response.kind = "result"
                    /\ ~response.success_shown)

C3_Witness ==
    /\ pc = "returned"
    /\ Len(fix_log) >= 2
    /\ fix_log[Len(fix_log)].returned = fix_log[Len(fix_log)].asked
    /\ fix_history[Len(fix_history)].status = "Unchanged"

\* C4: when the fix-generation call raises, the history holds a fix record
\* with disposition GenerationFailed, the session stops as not successful
\* and no execution follows.
C4_GenerationFailureRecorded ==
    \A j \in 1..Len(fix_log) :
        fix_log[j].returned = RaisedCode =>
            /\ j = Len(fix_log)
            /\ SessionOver
            /\ ~is_successful
            /\ exec_calls = j
            /\ \E i \in 1..Len(fix_history) :
                  /\ fix_history[i].kind = "fix"
                  /\ fix_history[i].status = "GenerationFailed"

\* C5: at the end of a session the final code (the current code of
\* execute_and_fix_code, the code process_message keeps and shows) is the
\* source passed to the last execution performed.
C5_FinalCodeIsLastExecuted ==
    /\ (pc = "respond" /\ exec_calls > 0 => current_code = last_executed)
    /\ (pc = "returned" /\ exec_calls > 0
        /\ response.kind \in {"result", "file", "exec_text"}
            => code = last_executed)
    /\ (pc = "returned" /\ exec_calls > 0 /\ response.kind = "result"
            => response.code = last_executed)

C5_Witness ==
    /\ pc = "returned"
    /\ response.kind = "result"
    /\ fix_attempts >= 1
    /\ response.code # fix_history[1].code
    /\ fix_log[Len(fix_log)].returned = EmptyCode

\* C6: when the execution of attempt N (after N modifying fixes) ends in a
\* fault, its outcome is recorded and the session stops, not successful,
\* without another fix request.
C6_ExhaustedStops ==
    (/\ Len(statuses) = max_fix_attempts + 1
     /\ statuses[Len(statuses)])
        => /\ SessionOver
           /\ ~is_successful
           /\ fix_calls = max_fix_attempts
           /\ fix_attempts = max_fix_attempts
           /\ ExecRecordCount = max_fix_attempts + 1
           /\ FixRecordCount = max_fix_attempts
           /\ fix_history[Len(fix_history)].kind = "exec"
           /\ fix_history[Len(fix_history)].attempt = max_fix_attempts
           /\ fix_history[Len(fix_history)].has_error

C6_Witness ==
    /\ pc = "returned"
    /\ max_fix_attempts >= 1
    /\ Len(statuses) = max_fix_attempts + 1
    /\ statuses[Len(statuses)]
    /\ fix_calls = max_fix_attempts

\* C7: when the evaluated code raises (a syntax fault or a fault during
\* evaluation), sys.stdout and sys.stderr after the call are what they were
\* before it, in _execute_python and in CodeExecutor.execute_code.
C7_FaultRestoresStreams ==
    [][/\ (/\ pc = "exec_eval"
           /\ Len(statuses') = Len(statuses) + 1
           /\ statuses'[Len(statuses')])
              => /\ sys_stdout' = old_stdout
                 /\ sys_stderr' = old_stderr
       /\ (/\ pc = "idle"
           /\ pc' = "idle"
           /\ executor_result' \in {"error_message", "raised"})
              => /\ sys_stdout' = sys_stdout
                 /\ sys_stderr' = sys_stderr]_vars

C7_Witness ==
    /\ pc = "fixing"
    /\ LastExecutionFaulted
    /\ sys_stdout = OrigStream
    /\ sys_stderr = OrigStream

\* C8: every way _execute_python returns or raises after it redirected the
\* streams leaves sys.stdout and sys.stderr at what they were before the
\* call, a failure between the redirection and the evaluation included.
C8_StreamsRestoredOnEveryExit ==
    (exec_calls >= 1 /\ pc \notin {"exec_prepare", "exec_eval"})
        => /\ sys_stdout = old_stdout
           /\ sys_stderr = old_stderr

\* C9: when the probe reports the language not ready, nothing is executed,
\* no fix is requested, nothing is installed, and the code is returned with
\* the probe's message.
C9_NotReadyNeverExecutes ==
    (env_message # "" /\ ~env_ready)
        => /\ pc = "returned"
           /\ response.kind = "env"
           /\ response.code = code
           /\ response.message = env_message
           /\ exec_calls = 0
           /\ fix_calls = 0
           /\ install_calls = 0

C9_Witness ==
    /\ pc = "returned"
    /\ response.kind = "env"
    /\ env_message = "unsupported"
    /\ ~env_ready
    /\ code # EmptyCode
    /\ dependencies # {}

\* C10: process_message never raises past its boundary, in normal mode and
\* in file-generation mode, whichever collaborator call fails.
C10_NeverRaises == pc # "raised"

\* ---- texts ----
\* A text is a sequence of tokens: a marker of a response schema, "FENCE"
\* (three backquotes), "NL" (a newline), "SP" (a blank), "==", ">=", "<="
\* or a word without any of these inside.

Whitespace == {"NL", "SP"}

Texts(alphabet) == UNION {[1..n -> alphabet] : n \in 0..MaxLen}

\* `tok in text`
Contains(text, tok) == \E i \in 1..Len(text) : text[i] = tok

\* text.find(tok), for a text that contains tok
FirstIndex(text, tok) ==
    CHOOSE i \in 1..Len(text) :
       text[i] = tok /\ \A j \in 1..(i - 1) : text[j] # tok

\* text.split(tok, 1): one part without the separator, else two
Split1(text, tok) ==
    IF Contains(text, tok)
    THEN <<SubSeq(text, 1, FirstIndex(text, tok) - 1),
           SubSeq(text, FirstIndex(text, tok) + 1, Len(text))>>
    ELSE <<text>>

\* parts[i - 1] of Python: indexing past the end raises IndexError
Item(parts, i) ==
    IF i <= Len(parts) THEN [raised |-> FALSE, value |-> parts[i]]
    ELSE [raised |-> TRUE, value |-> <<>>]

\* text.strip()
Strip(text) ==
    LET keep == {i \in 1..Len(text) : text[i] \notin Whitespace} IN
    IF keep = {} THEN <<>>
    ELSE SubSeq(text,
                CHOOSE i \in keep : \A j \in keep : i <= j,
                CHOOSE i \in keep : \A j \in keep : j <= i)

\* text.split("\n")
RECURSIVE SplitLines(_)
SplitLines(text) ==
    IF Contains(text, "NL")
    THEN <<Split1(text, "NL")[1]>> \o SplitLines(Split1(text, "NL")[2])
    ELSE <<text>>

\* [d.strip() for d in text.strip().split("\n") if d.strip()]
NonEmptyLines(text) ==
    LET lines == SplitLines(Strip(text))
        stripped == [i \in 1..Len(lines) |-> Strip(lines[i])]
        NonEmpty(l) == l # <<>>
    IN SelectSeq(stripped, NonEmpty)

StartsWithFence(text) == Len(text) > 0 /\ text[1] = "FENCE"

EndsWithFence(text) == Len(text) > 0 /\ text[Len(text)] = "FENCE"

\* the two steps every parser applies to a code section after its strip():
\* drop the line of a leading fence, drop a trailing fence
DropFences(code_text) ==
    LET opened == IF StartsWithFence(code_text) /\ Contains(code_text, "NL")
                  THEN SubSeq(code_text, FirstIndex(code_text, "NL") + 1,
                              Len(code_text))
                  ELSE code_text
    IN IF EndsWithFence(opened)
       THEN Strip(SubSeq(opened, 1, Len(opened) - 1))
       ELSE opened

\* the parsers: code_text = code_part.strip(), then the two steps
StripFences(code_part) == DropFences(Strip(code_part))

\* _remove_markdown_format
RemoveMarkdownFormat(c) == Strip(DropFences(c))

\* ---- the text parsers ----

CodeMarkers == {"LANGUAGE:", "DEPENDENCIES:", "CODE:", "EXPLANATION:"}
FixMarkers == {"ERROR_ANALYSIS:", "FIX_APPROACH:", "FIXED_CODE:"}
TestDataMarkers ==
    {"INPUT_ANALYSIS:", "TEST_DATA:", "EXECUTION_METHOD:", "MODIFIED_CODE:"}
Payload == {"NL", "FENCE", "w"}

\* `if "MARKER:" in response:`, the test in front of every extraction
HasMarkerAssumed(text, m) == TRUE

HasMarker(text, m) == Contains(text, m)

\* response.split(m, 1)[1]
AfterMarker(text, m) == Item(Split1(text, m), 2)

\* `if next in part: part = part.split(next, 1)[0]`
UpTo(part, next) ==
    IF HasMarker(part, next) THEN Item(Split1(part, next), 1).value
    ELSE part

Absent == [raised |-> FALSE, value |-> <<>>]

\* a text field: what follows marker m, cut at the marker next, stripped
Section(text, m, next) ==
    IF HasMarker(text, m)
    THEN LET a == AfterMarker(text, m) IN
         [raised |-> a.raised, value |-> Strip(UpTo(a.value, next))]
    ELSE Absent

\* a code field that runs to the end of the response
CodeSection(text, m) ==
    IF HasMarker(text, m)
    THEN LET a == AfterMarker(text, m) IN
         [raised |-> a.raised, value |-> StripFences(Strip(a.value))]
    ELSE Absent

\* _parse_code_response
ParseCodeResponse(text) ==
    LET language_ ==
            IF HasMarker(text, "LANGUAGE:")
            THEN LET a == AfterMarker(text, "LANGUAGE:") IN
                 [raised |-> a.raised,
                  value |-> Strip(Item(Split1(a.value, "NL"), 1).value)]
            ELSE Absent
        dependencies_ ==
            IF HasMarker(text, "DEPENDENCIES:")
            THEN LET a == AfterMarker(text, "DEPENDENCIES:") IN
                 [raised |-> a.raised,
                  value |-> NonEmptyLines(UpTo(a.value, "CODE:"))]
            ELSE Absent
        code_ ==
            IF HasMarker(text, "CODE:")
            THEN LET a == AfterMarker(text, "CODE:") IN
                 [raised |-> a.raised,
                  value |-> StripFences(UpTo(a.value, "EXPLANATION:"))]
            ELSE Absent
        explanation ==
            IF HasMarker(text, "EXPLANATION:")
            THEN LET a == AfterMarker(text, "EXPLANATION:") IN
                 [raised |-> a.raised, value |-> Strip(a.value)]
            ELSE Absent
    IN [raised |-> language_.raised \/ dependencies_.raised
                     \/ code_.raised \/ explanation.raised,
        fields |-> [language |-> language_.value,
                    dependencies |-> dependencies_.value,
                    code |-> code_.value,
                    explanation |-> explanation.value]]

\* _parse_fix_response
ParseFixResponse(text) ==
    LET error_analysis == Section(text, "ERROR_ANALYSIS:", "FIX_APPROACH:")
        fix_approach == Section(text, "FIX_APPROACH:", "FIXED_CODE:")
        fixed_code == CodeSection(text, "FIXED_CODE:")
    IN [raised |-> error_analysis.raised \/ fix_approach.raised
                     \/ fixed_code.raised,
        fields |-> [error_analysis |-> error_analysis.value,
                    fix_approach |-> fix_approach.value,
                    fixed_code |-> fixed_code.value]]

\* _parse_test_data_response
ParseTestDataResponse(text) ==
    LET input_analysis == Section(text, "INPUT_ANALYSIS:", "TEST_DATA:")
        test_data == Section(text, "TEST_DATA:", "EXECUTION_METHOD:")
        execution_method ==
            Section(text, "EXECUTION_METHOD:", "MODIFIED_CODE:")
        modified_code == CodeSection(text, "MODIFIED_CODE:")
    IN [raised |-> input_analysis.raised \/ test_data.raised
                     \/ execution_method.raised \/ modified_code.raised,
        fields |-> [input_analysis |-> input_analysis.value,
                    test_data |-> test_data.value,
                    execution_method |-> execution_method.value,
                    modified_code |-> modified_code.value]]

ParserOps == {"code", "fix", "test_data"}

Parse(op, text) ==
    CASE op = "code" -> ParseCodeResponse(text)
      [] op = "fix" -> ParseFixResponse(text)
      [] OTHER -> ParseTestDataResponse(text)

\* the marker in front of each field of each result
MarkerOf(op) ==
    CASE op = "code" ->
            [language |-> "LANGUAGE:", dependencies |-> "DEPENDENCIES:",
             code |-> "CODE:", explanation |-> "EXPLANATION:"]
      [] op = "fix" ->
            [error_analysis |-> "ERROR_ANALYSIS:",
             fix_approach |-> "FIX_APPROACH:", fixed_code |-> "FIXED_CODE:"]
      [] OTHER ->
            [input_analysis |-> "INPUT_ANALYSIS:", test_data |-> "TEST_DATA:",
             execution_method |-> "EXECUTION_METHOD:",
             modified_code |-> "MODIFIED_CODE:"]

\* ---- check_dependencies on a list of requirement strings ----

StudyModules == {"numpy", "requests"}

DepStrings ==
    {<<"numpy">>, <<"requests">>, <<"numpy", "==", "1">>,
     <<"requests", ">=", "1">>, <<"numpy", "<=", "1">>, <<"numpy", "SP">>,
     <<"==", "1">>, <<"SP">>}

DepLists == UNION {[1..n -> DepStrings] : n \in 0..MaxDeps}

\* dep.split('==')[0].split('>=')[0].split('<=')[0].strip()
BareNameKeepsLessEqual(dep) ==
    Strip(Split1(Split1(dep, "==")[1], ">=")[1])

BareName(dep) ==
    Strip(Split1(Split1(Split1(dep, "==")[1], ">=")[1], "<=")[1])

\* importlib.import_module(clean_dep) does not raise ImportError
Resolves(name, resolvable) == Len(name) = 1 /\ name[1] \in resolvable

\* check_dependencies: the entries that have a bare name which does not
\* resolve, in the order of the list.  CheckDependencies above is this
\* function on the lists of bare names the pipeline model uses
MissingDependencies(deps, resolvable) ==
    LET Missing(dep) ==
           BareName(dep) # <<>> /\ ~Resolves(BareName(dep), resolvable)
    IN SelectSeq(deps, Missing)

\* the modules the entries of a list name
NamedModules(deps) ==
    {BareName(deps[i])[1] : i \in {j \in 1..Len(deps) : BareName(deps[j]) # <<>>}}

\* ---- the functions applied to every input of a bounded set ----

studyFrame == <<pc, mode, requests, max_fix_attempts, streamVars, genVars,
                envVars, install_logs, needs_input, loopVars, response,
                executor_result, obsVars, inputVars, cancelVars, sessionVars,
                p_op, p_in>>

\* a response text is given to one of the three parsers
ApplyParser ==
    /\ p_op \in ParserOps
    /\ p_out = <<>>
    /\ p_out' = <<Parse(p_op, p_in)>>
    /\ UNCHANGED <<studyFrame, importable>>

\* a code section goes through the fence stripping of the parsers and
\* through _remove_markdown_format, and each result goes through it again
ApplyStrip ==
    /\ p_op = "strip"
    /\ Len(p_out) < 2
    /\ LET prev == IF p_out = <<>> THEN [parser |-> p_in, remover |-> p_in]
                   ELSE p_out[Len(p_out)]
       IN p_out' = Append(p_out,
                          [parser |-> StripFences(prev.parser),
                           remover |-> RemoveMarkdownFormat(prev.remover)])
    /\ UNCHANGED <<studyFrame, importable>>

\* check_dependencies(deps), before and after the installation
CheckDependenciesCall ==
    /\ p_op = "deps"
    /\ Len(p_out) \in {0, 2}
    /\ p_out' = Append(p_out, MissingDependencies(p_in, importable))
    /\ UNCHANGED <<studyFrame, importable>>

\* install_dependencies(missing): whether the installer starts and
\* whatever it exits with, some of the modules asked for may have become
\* importable; a module that resolved before still does
InstallDependenciesCall ==
    /\ p_op = "deps"
    /\ Len(p_out) = 1
    /\ IF p_out[1] = <<>>
       THEN /\ importable' = importable
            /\ p_out' = Append(p_out, "nothing")
       ELSE \E launched \in BOOLEAN, returncode \in {0, 1},
               got \in SUBSET NamedModules(p_out[1]) :
               /\ importable' = IF launched THEN importable \cup got
                                ELSE importable
               /\ p_out' = Append(p_out,
                     InstallDependencies(launched, returncode).log)
    /\ UNCHANGED studyFrame

\* ---- _execute_python: the namespace of one execution ----

\* the value None of the result binding, and the values a source assigns
NullResult == 0
ResultValues == {1, 2}

\* the names exec_globals is built with, and the names a source can bind
BuiltinNames == {"os", "sys", "Path", "result"}
UserNames == {"x"}

\* what one source does when evaluated: the names it binds at top level
\* and the value it assigns to result (NullResult: it assigns none)
Behaviours ==
    [binds : SUBSET UserNames, assigns : {NullResult} \cup ResultValues]

\* the sources of the executions of one session, in order
BehaviourLists == UNION {[1..n -> Behaviours] : n \in 1..(MaxN + 1)}

\* before the first call of a session there is no namespace
NoGlobals == [names |-> {}, result |-> NullResult]

\* `exec_globals = {"os": os, "sys": sys, "Path": Path, "result": None}`,
\* built by every call whatever the previous call left behind
ExecGlobalsKept(previous) == previous

ExecGlobals(previous) == [names |-> BuiltinNames, result |-> NullResult]

\* exec(code, exec_globals): the bindings of the source go into the
\* namespace it was given
Evaluate(globals, b) ==
    [names |-> globals.names \cup b.binds,
     result |-> IF b.assigns # NullResult THEN b.assigns
                ELSE globals.result]

\* `if "result" in exec_globals and exec_globals["result"] is not None`:
\* the value shown in the result section, NullResult for no section
ReportedResult(globals) ==
    IF "result" \in globals.names THEN globals.result ELSE NullResult

\* one _execute_python call of the session: build the namespace, evaluate
\* the source in it, report the result binding
ExecuteInNamespace ==
    /\ p_op = "namespace"
    /\ Len(p_out) < Len(p_in)
    /\ LET k == Len(p_out) + 1
           previous == IF k = 1 THEN NoGlobals ELSE p_out[k - 1].final
           start == ExecGlobals(previous)
           final == Evaluate(start, p_in[k])
       IN p_out' = Append(p_out, [start |-> start, final |-> final,
                                  reported |-> ReportedResult(final)])
    /\ UNCHANGED <<studyFrame, importable>>

\* ---- MemoryManager ----

MaxItems == 2      \* largest max_items a MemoryManager is built with
MaxAdds == 4       \* add_memory calls on one MemoryManager

\* seq[start:] of Python for start <= 0: a negative start counts from the
\* end (and stops at the beginning), start 0 is the beginning
SliceFrom(seq, start) ==
    IF start < 0
    THEN SubSeq(seq, (IF Len(seq) + start > 0 THEN Len(seq) + start ELSE 0)
                     + 1, Len(seq))
    ELSE SubSeq(seq, start + 1, Len(seq))

\* the item the next add_memory call stores: items are numbered in the
\* order they are added
NextItem(memories) ==
    IF memories = <<>> THEN 1 ELSE memories[Len(memories)] + 1

\* add_memory: append, then `self.memories = self.memories[-self.max_items:]`
\* when the list is longer than max_items
AddMemoryTo(memories, max_items, item) ==
    LET appended == Append(memories, item) IN
    IF Len(appended) > max_items THEN SliceFrom(appended, 0 - max_items)
    ELSE appended

\* MemoryManager.add_memory on a manager built with max_items = p_in
AddMemory ==
    /\ p_op = "memory"
    /\ NextItem(p_out) <= MaxAdds
    /\ p_out' = AddMemoryTo(p_out, p_in, NextItem(p_out))
    /\ UNCHANGED <<studyFrame, importable>>

InitStudy ==
    /\ SessionsIdle
    /\ p_out = <<>>
    /\ \/ /\ p_op = "code"
          /\ p_in \in Texts(CodeMarkers \cup Payload)
          /\ AgentConstructed(MaxN, {})
       \/ /\ p_op = "fix"
          /\ p_in \in Texts(FixMarkers \cup Payload)
          /\ AgentConstructed(MaxN, {})
       \/ /\ p_op = "test_data"
          /\ p_in \in Texts(TestDataMarkers \cup Payload)
          /\ AgentConstructed(MaxN, {})
       \/ /\ p_op = "strip"
          /\ p_in \in Texts(Payload \cup {"SP"})
          /\ AgentConstructed(MaxN, {})
       \/ /\ p_op = "deps"
          /\ p_in \in DepLists
          /\ \E resolvable \in SUBSET StudyModules :
                AgentConstructed(MaxN, resolvable)
       \/ /\ p_op = "namespace"
          /\ p_in \in BehaviourLists
          /\ AgentConstructed(MaxN, {})
       \/ /\ p_op = "memory"
          /\ p_in \in 0..MaxItems
          /\ AgentConstructed(MaxN, {})

NextStudy ==
    \/ ApplyParser
    \/ ApplyStrip
    \/ CheckDependenciesCall
    \/ InstallDependenciesCall
    \/ ExecuteInNamespace
    \/ AddMemory

SpecStudy == InitStudy /\ [][NextStudy]_vars

\* ---- properties of the languages, the inputs and the functions ----

\* execute_and_fix_code has returned to process_message in normal mode
LoopReturned == mode = "normal" /\ pc \in {"respond", "returned"} /\ env_ready

\* the code the first execution of the request was given
FirstExecuted ==
    IF fix_history # <<>> THEN fix_history[1].code ELSE last_executed

\* C11, as stated: for a declared language other than Python whose
\* toolchain the probe found ready, the code is executed (out of process,
\* under the timeout)
C11_ReadyLanguageIsExecuted ==
    (LoopReturned /\ NormalizeLanguage(language) \in ProbedTools)
        => exec_calls >= 1

\* C11, amended: for a declared language other than Python whose toolchain
\* the probe found ready nothing is executed, in or out of the process:
\* the loop returns the not-executed message with the success flag set,
\* no installer or other child process was started and no timeout applies
C11_ReadyLanguageNotExecuted ==
    (LoopReturned /\ NormalizeLanguage(language) \in ProbedTools)
        => /\ exec_calls = 0
           /\ install_calls = 0
           /\ is_successful
           /\ execution_result = {"NotExecuted"}

C11_Witness ==
    /\ pc = "returned"
    /\ env_ready
    /\ language = "javascript"
    /\ response.kind = "result"

\* C12: for a language other than "python", the only one the executor
\* knows, execute_and_fix_code executes nothing and requests no fix, and
\* process_message does not treat its outcome as an error: no repair, an
\* empty history, and the code is returned with the not-executed message
C12_UnknownLanguageNotExecuted ==
    (LoopReturned /\ language # "python")
        => /\ exec_calls = 0
           /\ fix_calls = 0
           /\ fix_attempts = 0
           /\ fix_history = <<>>
           /\ pc = "returned" =>
                 /\ response.kind = "result"
                 /\ response.code = code
                 /\ ~response.repair_section
                 /\ response.result = {"NotExecuted"}

C12_Witness ==
    /\ pc = "returned"
    /\ env_ready
    /\ language = "py"
    /\ response.kind = "result"
    /\ response.code # EmptyCode

\* C13, as stated: when the code field of the generation response is empty
\* it is not executed, no fix is requested for it and the request is not
\* reported as a successful run
C13_EmptyCodeIsFatal ==
    (generated_code = EmptyCode /\ pc \notin {"idle", "detect", "generate"})
        => /\ exec_calls = 0
           /\ fix_calls = 0
           /\ ~(pc \in {"respond", "returned"} /\ is_successful)

\* C17: install_dependencies never raises, and once it was called the
\* request goes on to execute the code, whatever the installer did
C17_InstallIsAdvisory ==
    /\ install_calls >= 1 => pc # "raised"
    /\ (install_calls >= 1 /\ pc \in {"respond", "returned"})
          => /\ exec_calls >= 1
             /\ install_logs \in {"installed", "failed", "launch_error"}

C17_Witness ==
    /\ pc = "returned"
    /\ install_logs = "launch_error"
    /\ exec_calls >= 1
    /\ response.kind = "result"

\* C18: when the code needs input and the synthesis gave a non-empty
\* modified code, the first execution is given that code; when the
\* synthesis failed the analyzer's answer asks for manual input, the
\* generated code is kept and Python code is still executed
C18_InputSynthesis ==
    /\ (exec_calls >= 1 /\ needs_input
           /\ Truthy(test_data_result.modified_code))
          => FirstExecuted = test_data_result.modified_code
    /\ test_data_result.kind = "manual"
          => /\ needs_input
             /\ pc # "raised"
             /\ pc = "loop_entry" => code = generated_code
             /\ exec_calls >= 1 => FirstExecuted = generated_code
             /\ (pc \in {"respond", "returned"} /\ language = "python")
                   => exec_calls >= 1

C18_Witness ==
    /\ needs_input
    /\ Truthy(test_data_result.modified_code)
    /\ test_data_result.modified_code # generated_code
    /\ exec_calls >= 1
    /\ FirstExecuted = test_data_result.modified_code

\* C19, as stated: after all the sessions that executed code at the same
\* time have finished, the standard streams are the original ones and the
\* output each session read holds only what its own code wrote
C19_SessionsIsolated ==
    (\A s \in Sessions : s_pc[s] = "done")
        => /\ sys_stdout = OrigStream
           /\ sys_stderr = OrigStream
           /\ \A s \in Sessions : s_output[s] \subseteq {s}

\* C20, as stated: once the caller has cancelled the request, no further
\* execution and no further fix request is started for it
C20_NoWorkAfterCancel ==
    cancel_requested
        => /\ exec_calls = calls_at_cancel.exec
           /\ fix_calls = calls_at_cancel.fix

\* the bare name of a requirement, read off the string: what stands in
\* front of the first ==, >= or <=, without the blanks around it
NamePart(dep) ==
    LET ops == {i \in 1..Len(dep) : dep[i] \in {"==", ">=", "<="}} IN
    IF ops = {} THEN Strip(dep)
    ELSE Strip(SubSeq(dep, 1, (CHOOSE i \in ops : \A j \in ops : i <= j) - 1))

Range(seq) == {seq[i] : i \in 1..Len(seq)}

\* C14: a parser never raises, and its result holds every field of its
\* schema, the field of a marker that is not in the text being empty (the
\* empty string, the empty list for the dependencies)
C14_ParsersTotal ==
    (p_op \in ParserOps /\ p_out # <<>>)
        => /\ ~p_out[1].raised
           /\ DOMAIN p_out[1].fields = DOMAIN MarkerOf(p_op)
           /\ \A f \in DOMAIN MarkerOf(p_op) :
                 ~Contains(p_in, MarkerOf(p_op)[f])
                     => p_out[1].fields[f] = <<>>

C14_Witness ==
    /\ p_op = "code"
    /\ p_out # <<>>
    /\ ~Contains(p_in, "LANGUAGE:")
    /\ Contains(p_in, "EXPLANATION:")
    /\ Contains(p_in, "CODE:")
    /\ FirstIndex(p_in, "EXPLANATION:") < FirstIndex(p_in, "CODE:")
    /\ p_out[1].fields.code # <<>>
    /\ p_out[1].fields.language = <<>>

\* C15, as stated: stripping the fences of a code section that was
\* stripped before returns it unchanged, in the parsers and in
\* _remove_markdown_format
C15_StripIdempotent ==
    (p_op = "strip" /\ Len(p_out) = 2) => p_out[2] = p_out[1]

IsExecRecord(r) == r.kind = "exec"

IsFixRecord(r) == r.kind = "fix"

\* the execution records of the history, in history order
ExecRecords == SelectSeq(fix_history, IsExecRecord)

\* the fix records of the history, in history order
FixRecords == SelectSeq(fix_history, IsFixRecord)

\* execute_and_fix_code is running or has just returned to process_message
InSession == pc \in {"exec_redirect", "exec_prepare", "exec_eval", "fixing",
                     "respond"}

\* C21: an execution is classified as failed, and so drives the repair
\* loop, if and only if it ended in a fault: the k-th execution record is
\* marked has_error exactly when the k-th execution faulted, and a fix is
\* requested only after an execution that faulted.
C21_FailedIffFaulted ==
    InSession =>
        /\ \A k \in 1..Len(ExecRecords) :
              /\ k <= Len(statuses)
              /\ ExecRecords[k].has_error = statuses[k]
        /\ (pc = "fixing" => LastExecutionFaulted)

\* execute_and_fix_code returned its five values through one of the exits
\* of the repair loop, after at least one execution
LoopExited ==
    /\ exec_calls >= 1
    /\ \/ pc = "respond"
       \/ pc = "returned" /\ response.kind # "error"

\* the source passed to the k-th execution of the session
ExecutedCode(k) ==
    IF k <= Len(fix_log) THEN fix_log[k].asked ELSE last_executed

\* C22: when the repair loop has exited (success, exhaustion, stall or
\* fix-generation failure) every execution performed is recorded exactly
\* once, in the order performed; the history starts with an execution
\* record and every fix record directly follows the record of the failed
\* execution it answers, every execution record but the last being
\* followed by its fix record.
C22_HistoryRecordsEveryExecution ==
    LoopExited =>
        /\ Len(ExecRecords) = exec_calls
        /\ \A k \in 1..Len(ExecRecords) :
              ExecRecords[k].code = ExecutedCode(k)
        /\ fix_history[1].kind = "exec"
        /\ \A i \in 1..Len(fix_history) :
              /\ fix_history[i].kind = "fix" =>
                    /\ i > 1
                    /\ fix_history[i - 1].kind = "exec"
                    /\ fix_history[i - 1].has_error
                    /\ fix_history[i].original_code = fix_history[i - 1].code
                    /\ fix_history[i].result = fix_history[i - 1].result
              /\ (fix_history[i].kind = "exec" /\ i < Len(fix_history)) =>
                    fix_history[i + 1].kind = "fix"

C22_Witness ==
    /\ pc = "respond"
    /\ exec_calls = 2
    /\ Len(fix_history) = 3
    /\ fix_history[3].fix_error
    /\ fix_history[2].status = "Modified"

\* C23: the attempt index of the execution records starts at 0 and is
\* strictly increasing in history order, and likewise for the fix records;
\* a fix record carries the index of the execution record it follows.
C23_AttemptIndices ==
    /\ Len(ExecRecords) >= 1 => ExecRecords[1].attempt = 0
    /\ \A k, l \in 1..Len(ExecRecords) :
          k < l => ExecRecords[k].attempt < ExecRecords[l].attempt
    /\ Len(FixRecords) >= 1 => FixRecords[1].attempt = 0
    /\ \A k, l \in 1..Len(FixRecords) :
          k < l => FixRecords[k].attempt < FixRecords[l].attempt
    /\ \A i \in 2..Len(fix_history) :
          fix_history[i].kind = "fix" =>
              fix_history[i].attempt = fix_history[i - 1].attempt

C23_Witness ==
    /\ pc = "respond"
    /\ Len(ExecRecords) = 3
    /\ Len(FixRecords) = 2
    /\ FixRecords[2].attempt = 1
    /\ ExecRecords[3].attempt = 2

\* ---- properties of the extracted fields ----

\* the markers of the schema a parser reads
SchemaMarkers(op) == {MarkerOf(op)[f] : f \in DOMAIN MarkerOf(op)}

\* the fields a parser returns as stripped text, and the ones it returns
\* as code with the fences removed
TextFields(op) ==
    CASE op = "code" -> {"explanation"}
      [] op = "fix" -> {"error_analysis", "fix_approach"}
      [] OTHER -> {"input_analysis", "test_data", "execution_method"}

CodeFields(op) ==
    CASE op = "code" -> {"code"}
      [] op = "fix" -> {"fixed_code"}
      [] OTHER -> {"modified_code"}

\* the text between the first occurrence of marker m and the next marker of
\* the schema after it, or the end of the text
Between(text, m, markers) ==
    LET i == FirstIndex(text, m)
        nexts == {j \in (i + 1)..Len(text) : text[j] \in markers}
    IN IF nexts = {} THEN SubSeq(text, i + 1, Len(text))
       ELSE SubSeq(text, i + 1,
                   (CHOOSE j \in nexts : \A k \in nexts : j <= k) - 1)

\* no marker of the schema occurs twice in the text
MarkersOnce(text, markers) ==
    \A i, j \in 1..Len(text) :
        (text[i] \in markers /\ text[i] = text[j]) => i = j

\* C24: for every marker present in a response (each marker at most once),
\* the extracted field is the text between that marker and the next marker
\* of the schema occurring after it, or the end of the text (stripped; a
\* code field with its fences removed), also when an intermediate marker is
\* missing.
C24_FieldEndsAtNextMarker ==
    (p_op \in ParserOps /\ p_out # <<>>
     /\ MarkersOnce(p_in, SchemaMarkers(p_op)))
        => \A f \in TextFields(p_op) \cup CodeFields(p_op) :
              Contains(p_in, MarkerOf(p_op)[f]) =>
                 p_out[1].fields[f] =
                    IF f \in TextFields(p_op)
                    THEN Strip(Between(p_in, MarkerOf(p_op)[f],
                                       SchemaMarkers(p_op)))
                    ELSE StripFences(Between(p_in, MarkerOf(p_op)[f],
                                             SchemaMarkers(p_op)))

\* an _execute_python call of the session has started and not yet returned
ExecInFlight == pc \in {"exec_prepare", "exec_eval"}

\* a fix_code call of the session has started and not yet returned
FixInFlight == pc = "fixing"

\* C25: at most one execution of a session is in flight at any moment, and
\* no fix request is in flight with it; a fix request for attempt i is in
\* flight only after execution i has finished and before execution i+1
\* has started.
C25_NoOverlap ==
    /\ ExecInFlight =>
          /\ exec_calls = Len(statuses) + 1
          /\ fix_calls = Len(fix_log)
    /\ FixInFlight =>
          /\ fix_calls = Len(fix_log) + 1
          /\ exec_calls = Len(statuses)
          /\ exec_calls = attempt + 1
          /\ fix_calls = attempt + 1
    /\ (InSession /\ ~ExecInFlight /\ ~FixInFlight) =>
          /\ exec_calls = Len(statuses)
          /\ fix_calls = Len(fix_log)

C25_Witness ==
    /\ FixInFlight
    /\ attempt = 1
    /\ exec_calls = 2
    /\ Len(statuses) = 2
    /\ fix_calls = 2

\* ---- properties of the namespace and of the memory ----

\* C26: every execution of a session starts from a freshly built namespace
\* whose result binding is null: it holds no name an earlier attempt bound,
\* and the result it reports is the one its own source assigned, none when
\* its source assigned none.
C26_FreshNamespace ==
    p_op = "namespace" =>
        \A k \in 1..Len(p_out) :
            /\ p_out[k].start.names = BuiltinNames
            /\ p_out[k].start.result = NullResult
            /\ p_out[k].reported = p_in[k].assigns

C26_Witness ==
    /\ p_op = "namespace"
    /\ Len(p_out) >= 2
    /\ p_in[1].binds = {"x"}
    /\ p_in[1].assigns = 1
    /\ p_in[2].assigns = NullResult
    /\ p_out[1].reported = 1
    /\ p_out[2].reported = NullResult
    /\ "x" \notin p_out[2].start.names

\* C27: after any sequence of add_memory calls on a MemoryManager built
\* with max_items = m, for every m >= 0, at most m memories are stored and
\* they are the most recently added ones in insertion order.
C27_MemoryBounded ==
    p_op = "memory" =>
        /\ Len(p_out) <= p_in
        /\ \A i \in 1..Len(p_out) :
              p_out[i] = NextItem(p_out) - 1 - Len(p_out) + i

\* ---- properties of the probe, the returned values and the response ----

\* C28: whenever check_environment resolves the generated language to
\* Python, directly or through a synonym, and reports ready,
\* execute_and_fix_code executes the code in-process instead of returning
\* the not-executed outcome.
C28_ProbeAndExecutorAgree ==
    (/\ pc = "respond"
     /\ mode = "normal"
     /\ env_ready
     /\ NormalizeLanguage(language) = "python")
        => /\ exec_calls >= 1
           /\ "NotExecuted" \notin execution_result

\* the number of fix records marked as modified
ModifiedCount ==
    Cardinality({i \in 1..Len(fix_history) :
                    /\ fix_history[i].kind = "fix"
                    /\ fix_history[i].status = "Modified"})

\* the record of the last execution performed
LastExecRecord == ExecRecords[Len(ExecRecords)]

\* execute_and_fix_code has just returned its five values for Python code
PythonReturned == pc = "respond" /\ exec_calls >= 1

\* C29, as stated: the fix count is the number of fix records marked as
\* modified, the returned fixed code is None exactly when the fix count is
\* 0, the success flag is set exactly when the last execution record has no
\* error, and the returned execution result is the result of the last
\* execution performed.
C29_ReturnedValuesConsistent ==
    PythonReturned =>
        /\ fix_attempts = ModifiedCount
        /\ (ReturnedFixedCode(current_code, fix_attempts) = NoneCode)
              <=> (fix_attempts = 0)
        /\ is_successful <=> ~LastExecRecord.has_error
        /\ execution_result = LastExecRecord.result

\* C29, amended: as above, but the returned execution result is the result
\* of the last execution performed followed, when the fix request for it
\* raised, by the note that the automatic repair failed.
C29_ReturnedValuesWithNote ==
    PythonReturned =>
        /\ fix_attempts = ModifiedCount
        /\ (ReturnedFixedCode(current_code, fix_attempts) = NoneCode)
              <=> (fix_attempts = 0)
        /\ is_successful <=> ~LastExecRecord.has_error
        /\ execution_result =
              IF LastExecRecord.fix_error
              THEN LastExecRecord.result \cup {"FixFailed"}
              ELSE LastExecRecord.result
        /\ "FixFailed" \notin LastExecRecord.result

C29_Witness ==
    /\ PythonReturned
    /\ fix_attempts = 1
    /\ LastExecRecord.fix_error
    /\ LastExecRecord.attempt = 1
    /\ "FixFailed" \in execution_result
    /\ ReturnedFixedCode(current_code, fix_attempts) = current_code

\* some execution record of the history notes that the fix request raised
FixGenerationFailed ==
    \E i \in 1..Len(fix_history) : fix_history[i].fix_error

\* C30: whenever the history of a session holds a fix record or a
\* fix-generation failure, also when the very first fix request stalls or
\* raises, the response of process_message has the repair-process section,
\* and its status line says that the final run still has errors when the
\* session was not successful.
C30_RepairSectionShown ==
    (/\ pc = "returned"
     /\ mode = "normal"
     /\ response.kind = "result"
     /\ (FixRecordCount >= 1 \/ FixGenerationFailed))
        => /\ response.repair_section
           /\ (~is_successful => ~response.success_shown)

====
